---- MODULE Spec2Model ----
(***************************************************************************)
(* A model of the text analyzer: the analysis function analyze_text        *)
(* (src/text_analyzer.py), the console input flow around it and the GUI    *)
(* handlers of src/text_analyzer_gui.py.                                   *)
(*                                                                         *)
(* A text is a sequence of characters, each character a one-character      *)
(* string.  A sentiment score is an integer number of ten-thousandths      *)
(* (the external scorer rounds compound to four decimals), so 0.05 is 500. *)
(***************************************************************************)
EXTENDS Integers, Sequences, FiniteSets, TLC

VARIABLES
    text,          \* analyze_text: the argument `text`
    result,        \* analyze_text: the dictionary it returned
    scorer_calls,  \* the arguments analyzer.polarity_scores was called with
    pc,            \* the position of the program: "ready" before the call of
                   \* analyze_text, "done" after it; in the console flow also
                   \* the prompt that is waiting for input
    \* the console flow
    route,         \* collect_text: `method`, "none" before it is chosen
    lines,         \* read_text_from_input: `lines` of the innermost call
    depth,         \* the number of Python frames on the stack
    out,           \* the last message printed
    entry,         \* the last line input() returned in the file route
    error,         \* the exception that ended the process, "none" otherwise
    \* the GUI
    input_box,     \* the content of the input text widget
    output_box,    \* the content of the results text widget
    output_state,  \* the state option of the results text widget
    dialog,        \* the message box the last handler showed, "none" otherwise
    last_event,    \* the last user action and what the user chose in it
    analyzed       \* the input box and the scores at the last analysis

analysis_vars == <<text, result, scorer_calls>>
console_vars == <<route, lines, depth, out, entry, error>>
gui_vars == <<input_box, output_box, output_state, dialog, last_event, analyzed>>
vars == <<analysis_vars, pc, console_vars, gui_vars>>

----------------------------------------------------------------------------
(* Bounds of the input families.                                           *)

MaxLen == 4
MaxTokens == 7
MaxOver == 3

(* Program constants.                                                      *)

PreviewLimit == 200
TopN == 5
PositiveThreshold == 500
NegativeThreshold == -500

----------------------------------------------------------------------------
(* Characters.                                                             *)

Whitespace == {" ", "\n", "\t"}
Apostrophe == "'"
LowerLetters == {"a", "b", "c", "d", "e", "f", "g", "i", "o", "r", "t"}
UpperLetters == {"A", "B", "E", "G", "R", "T"}
Digits == {"1"}
\* U+0130, the capital I with a dot, and U+0307, the combining dot: the
\* lowercase of U+0130 is the two characters "i", U+0307
DottedI == "<U+0130>"
CombiningDot == "<U+0307>"

isspace(c) == c \in Whitespace

\* \w of the re module on str patterns: alphanumerics and the underscore
IsWordChar(c) == c \in LowerLetters \cup UpperLetters \cup Digits \cup {"_", DottedI}

\* the character class [\w']
IsTokenChar(c) == IsWordChar(c) \/ c = Apostrophe

\* the lowercase of one character, as a string
lower_char(c) ==
    CASE c = "A" -> <<"a">>
      [] c = "B" -> <<"b">>
      [] c = "E" -> <<"e">>
      [] c = "G" -> <<"g">>
      [] c = "R" -> <<"r">>
      [] c = "T" -> <<"t">>
      [] c = DottedI -> <<"i", CombiningDot>>
      [] OTHER -> <<c>>

RECURSIVE lower_range(_, _, _)
\* the lowercase of the characters lo..hi of s
lower_range(s, lo, hi) ==
    IF lo > hi THEN <<>>
    ELSE IF lo = hi THEN lower_char(s[lo])
    ELSE LET mid == (lo + hi) \div 2
         IN  lower_range(s, lo, mid) \o lower_range(s, mid + 1, hi)

\* str.lower()
lower(s) == lower_range(s, 1, Len(s))

\* str.strip(): drops the leading and the trailing run of whitespace
strip(s) ==
    LET leading == {i \in 1..Len(s) : \A j \in 1..i : isspace(s[j])}
        trailing == {i \in 1..Len(s) : \A j \in i..Len(s) : isspace(s[j])}
    IN  SubSeq(s, Cardinality(leading) + 1, Len(s) - Cardinality(trailing))

----------------------------------------------------------------------------
(* re.findall(r"\b[\w']+\b", s)                                            *)

word_at(s, i) == i >= 1 /\ i <= Len(s) /\ IsWordChar(s[i])

\* \b at offset p (between s[p] and s[p+1]): exactly one side is a word
\* character; outside the string counts as a non-word character
Boundary(s, p) == word_at(s, p) # word_at(s, p + 1)

\* MatchEnd without giving characters back: the whole run or nothing
MatchEndGreedyOnly(s, p) ==
    IF ~Boundary(s, p) THEN -1
    ELSE LET stops == {k \in (p + 1)..Len(s) : ~IsTokenChar(s[k])}
             run == IF stops = {} THEN Len(s)
                    ELSE (CHOOSE k \in stops : \A m \in stops : k <= m) - 1
         IN  IF run > p /\ Boundary(s, run) THEN run ELSE -1

\* The end offset of the match that starts at offset p, or -1 when there is
\* none: [\w']+ is greedy, it takes the whole run of [\w'] characters after p
\* and gives characters back until \b holds.
MatchEnd(s, p) ==
    IF ~Boundary(s, p) THEN -1
    ELSE LET stops == {k \in (p + 1)..Len(s) : ~IsTokenChar(s[k])}
             run == IF stops = {} THEN Len(s)
                    ELSE (CHOOSE k \in stops : \A m \in stops : k <= m) - 1
             ends == {j \in (p + 1)..run : Boundary(s, j)}
         IN  IF ends = {} THEN -1
             ELSE CHOOSE j \in ends : \A k \in ends : k <= j

\* One step of the scan of findall, at offset q: an offset inside the last
\* match is passed over; at the scan's position a match is taken and the scan
\* resumes at its end, otherwise the scan moves one character on.
scan_step(s, st, q) ==
    IF st.pos # q THEN st
    ELSE LET e == MatchEnd(s, q)
         IN  IF e = -1 THEN [found |-> st.found, pos |-> q + 1]
             ELSE [found |-> Append(st.found, SubSeq(s, q + 1, e)), pos |-> e]

RECURSIVE scan(_, _, _, _)
\* the steps at the offsets lo..hi, in order
scan(s, st, lo, hi) ==
    IF lo > hi THEN st
    ELSE IF lo = hi THEN scan_step(s, st, lo)
    ELSE LET mid == (lo + hi) \div 2
             left == scan(s, st, lo, mid)
         IN  \* the scan is beyond mid once the offsets up to mid are done
             IF left.pos > mid THEN scan(s, left, mid + 1, hi) ELSE left

findall(s) == scan(s, [found |-> <<>>, pos |-> 0], 0, Len(s) - 1).found

----------------------------------------------------------------------------
(* Counter(words).most_common(5)                                           *)

\* counter[w] += 1 on the counter as its items in insertion order: a new
\* word is added behind the others
count_word(counter, w) ==
    LET at == {i \in 1..Len(counter) : counter[i][1] = w}
    IN  IF at = {} THEN Append(counter, <<w, 1>>)
        ELSE [i \in 1..Len(counter) |->
                 IF i \in at THEN <<w, counter[i][2] + 1>> ELSE counter[i]]

RECURSIVE count_words(_, _, _, _)
\* the words lo..hi counted in order
count_words(counter, words, lo, hi) ==
    IF lo > hi THEN counter
    ELSE IF lo = hi THEN count_word(counter, words[lo])
    ELSE LET mid == (lo + hi) \div 2
             left == count_words(counter, words, lo, mid)
         IN  \* a counter that counted a word is not empty
             IF left # <<>> THEN count_words(left, words, mid + 1, hi) ELSE left

\* Counter(words): the items in insertion (first occurrence) order
Counter(words) == count_words(<<>>, words, 1, Len(words))

\* InsertDesc with the items of an equal count in reverse order
InsertDescTiesReversed(sorted, item) ==
    LET ahead == {i \in 1..Len(sorted) : sorted[i][2] > item[2]}
        k == Cardinality(ahead)
    IN  SubSeq(sorted, 1, k) \o <<item>> \o SubSeq(sorted, k + 1, Len(sorted))

\* the place of an item in the stable descending order: behind every item
\* of an equal or larger count
InsertDesc(sorted, item) ==
    LET ahead == {i \in 1..Len(sorted) : sorted[i][2] >= item[2]}
        k == Cardinality(ahead)
    IN  SubSeq(sorted, 1, k) \o <<item>> \o SubSeq(sorted, k + 1, Len(sorted))

RECURSIVE SortedDesc(_)
\* sorted(items, key=count, reverse=True), which is stable
SortedDesc(items) ==
    IF items = <<>> THEN <<>>
    ELSE InsertDesc(SortedDesc(SubSeq(items, 1, Len(items) - 1)), items[Len(items)])

\* heapq.nlargest(n, items, key=count) == sorted(items, key=count, reverse=True)[:n]
most_common(items, n) ==
    LET s == SortedDesc(items)
    IN  SubSeq(s, 1, IF Len(s) < n THEN Len(s) ELSE n)

----------------------------------------------------------------------------
(* analyze_text                                                            *)

\* label_sentiment with the thresholds exclusive
label_sentiment_exclusive(score) ==
    IF score > PositiveThreshold THEN "Positive"
    ELSE IF score < NegativeThreshold THEN "Negative"
    ELSE "Neutral"

\* label_sentiment(score), the score in ten-thousandths
label_sentiment(score) ==
    IF score >= PositiveThreshold THEN "Positive"
    ELSE IF score <= NegativeThreshold THEN "Negative"
    ELSE "Neutral"

ZeroScores == [compound |-> 0, pos |-> 0, neu |-> 0, neg |-> 0]

Ellipsis == <<".", ".", ".">>

\* the words of the text: the matches on the lowercased trimmed text
words_of(t) == findall(lower(strip(t)))

\* count_non_space counting every character but the blank
count_non_blank(cleaned) == Cardinality({i \in 1..Len(cleaned) : cleaned[i] # " "})

\* sum(1 for char in cleaned if not char.isspace())
count_non_space(cleaned) == Cardinality({i \in 1..Len(cleaned) : ~isspace(cleaned[i])})

\* uses_scorer with the scorer called on every text
uses_scorer_always(cleaned) == TRUE

\* the condition of `... if cleaned else {...}`: the scorer is called
uses_scorer(cleaned) == cleaned # <<>>

\* preview_of truncating a text of exactly the limit too
preview_of_inclusive(cleaned) ==
    IF Len(cleaned) >= PreviewLimit
    THEN SubSeq(cleaned, 1, PreviewLimit) \o Ellipsis
    ELSE cleaned

\* (cleaned[:200] + "...") if len(cleaned) > 200 else cleaned
preview_of(cleaned) ==
    IF Len(cleaned) > PreviewLimit
    THEN SubSeq(cleaned, 1, PreviewLimit) \o Ellipsis
    ELSE cleaned

\* The dictionary analyze_text returns for `t` when the scorer, if it is
\* called, returns `scored`.
analyze_text(t, scored) ==
    LET cleaned == strip(t)
        words == findall(lower(cleaned))
        sentiment_scores == IF uses_scorer(cleaned) THEN scored ELSE ZeroScores
    IN  [words |-> Len(words),
         chars_with_spaces |-> Len(cleaned),
         chars_without_spaces |-> count_non_space(cleaned),
         top_words |-> most_common(Counter(words), TopN),
         sentiment_label |-> label_sentiment(sentiment_scores.compound),
         sentiment_scores |-> sentiment_scores,
         preview |-> preview_of(cleaned)]

----------------------------------------------------------------------------
(* The texts analyze_text is called with.                                  *)

ShortChars == {"a", "A", DottedI, "'", " ", "\n", "!"}

\* every text of at most MaxLen characters
ShortTexts == UNION {[1..n -> ShortChars] : n \in 0..MaxLen}

MaxOf(s) == IF s = <<>> THEN 0 ELSE CHOOSE m \in {s[i] : i \in 1..Len(s)} :
                                        \A i \in 1..Len(s) : s[i] <= m

RECURSIVE Patterns(_)
\* The occurrence patterns of at most n tokens over TopN + 1 words: word k
\* first occurs after the words 1..k-1.
Patterns(n) ==
    IF n = 0 THEN {<<>>}
    ELSE LET prev == Patterns(n - 1)
             longest == {s \in prev : Len(s) = n - 1}
         IN  prev \cup UNION {{Append(s, k) :
                                    k \in 1..(IF MaxOf(s) < TopN + 1 THEN MaxOf(s) + 1
                                              ELSE TopN + 1)} : s \in longest}

WordOrders == {<<"a", "b", "c", "d", "e", "f">>, <<"c", "f", "a", "e", "b", "d">>}

RECURSIVE Join(_, _)
\* the words of a pattern, named by `order` and separated by one space
Join(pattern, order) ==
    IF pattern = <<>> THEN <<>>
    ELSE IF Len(pattern) = 1 THEN <<order[pattern[1]]>>
    ELSE <<order[pattern[1]], " ">> \o Join(Tail(pattern), order)

WordTexts == {Join(p, o) : p \in Patterns(MaxTokens), o \in WordOrders}

FillPatterns == {<<"a">>, <<"A", "'", "!", " ">>}

Fill(n, pattern) == [i \in 1..n |-> pattern[((i - 1) % Len(pattern)) + 1]]

Pads == {<<>>, <<"\n", " ">>}

\* texts whose length is around the preview limit
LongTexts ==
    {lead \o Fill(n, f) \o trail :
        lead \in Pads, trail \in Pads, f \in FillPatterns,
        n \in (PreviewLimit - MaxOver)..(PreviewLimit + MaxOver)}

\* "Good good bad! great, GREAT."
ExampleText ==
    <<"G", "o", "o", "d", " ", "g", "o", "o", "d", " ", "b", "a", "d", "!", " ",
      "g", "r", "e", "a", "t", ",", " ", "G", "R", "E", "A", "T", ".">>

Texts == ShortTexts \cup WordTexts \cup LongTexts \cup {ExampleText}

\* values the external scorer returns (ten-thousandths)
ScorerOutputs ==
    {[compound |-> 6249, pos |-> 4000, neu |-> 6000, neg |-> 0],
     [compound |-> 499, pos |-> 1000, neu |-> 8000, neg |-> 1000],
     [compound |-> -500, pos |-> 0, neu |-> 9000, neg |-> 1000]}

\* every compound value of [-1, 1]
AllCompounds == (-10000)..10000

AllScorerOutputs ==
    {[compound |-> c, pos |-> 0, neu |-> 10000, neg |-> 0] : c \in AllCompounds}

LabelTexts == {<<>>, <<" ">>, <<"a">>}

----------------------------------------------------------------------------
(* A call of analyze_text.                                                 *)

NoResult == [words |-> -1]
NoEntry == [kind |-> "none", line |-> <<>>]
NoEvent == [op |-> "none", choice |-> <<>>, box |-> <<>>]
NoAnalysis == [done |-> FALSE, box |-> <<>>, scores |-> ZeroScores]

\* the frames of the module, of main and of collect_text
BaseDepth == 3

\* the console flow is not running
ConsoleIdle ==
    /\ route = "none"
    /\ lines = <<>>
    /\ depth = 0
    /\ out = ""
    /\ entry = NoEntry
    /\ error = "none"

\* the window as it is built: both text widgets empty, the results widget
\* disabled
GuiStart ==
    /\ input_box = <<>>
    /\ output_box = <<>>
    /\ output_state = "disabled"
    /\ dialog = "none"
    /\ last_event = NoEvent
    /\ analyzed = NoAnalysis

Init ==
    /\ text \in Texts
    /\ result = NoResult
    /\ scorer_calls = <<>>
    /\ pc = "ready"
    /\ ConsoleIdle
    /\ GuiStart

\* results = analyze_text(text, analyzer), the scorer returning a value of
\* `outputs` when it is called
Analyze(outputs) ==
    /\ pc = "ready"
    /\ LET cleaned == strip(text)
       IN  IF uses_scorer(cleaned)
           THEN \E scored \in outputs :
                   /\ result' = analyze_text(text, scored)
                   /\ scorer_calls' = Append(scorer_calls, cleaned)
           ELSE /\ result' = analyze_text(text, ZeroScores)
                /\ scorer_calls' = scorer_calls
    /\ pc' = "done"
    /\ UNCHANGED <<text, console_vars, gui_vars>>

Next == Analyze(ScorerOutputs)

Spec == Init /\ [][Next]_vars

InitLabel ==
    /\ text \in LabelTexts
    /\ result = NoResult
    /\ scorer_calls = <<>>
    /\ pc = "ready"
    /\ ConsoleIdle
    /\ GuiStart

NextLabel == Analyze(AllScorerOutputs)

SpecLabel == InitLabel /\ [][NextLabel]_vars

----------------------------------------------------------------------------
(* Properties of analyze_text.                                             *)

Occurrences(w, words) == Cardinality({i \in 1..Len(words) : words[i] = w})

FirstPos(w, words) ==
    CHOOSE i \in 1..Len(words) : words[i] = w /\ \A j \in 1..(i - 1) : words[j] # w

\* w comes before v in the order of top_words: a larger count, or the same
\* count and an earlier first occurrence
Outranks(w, v, words) ==
    \/ Occurrences(w, words) > Occurrences(v, words)
    \/ /\ Occurrences(w, words) = Occurrences(v, words)
       /\ FirstPos(w, words) < FirstPos(v, words)

\* C1: top_words has at most 5 entries, holds distinct tokens each with its
\* exact number of occurrences in the token sequence, is ordered by count
\* descending with ties resolved by first occurrence, omits no token that
\* outranks a listed one (a token is omitted only from a full list), and is
\* empty when the text has no tokens.
C1_TopWords ==
    pc = "done" =>
        LET words == words_of(text)
            tw == result.top_words
            all == {words[i] : i \in 1..Len(words)}
            listed == {tw[i][1] : i \in 1..Len(tw)}
        IN  /\ Len(tw) <= 5
            /\ \A i, j \in 1..Len(tw) : i # j => tw[i][1] # tw[j][1]
            /\ \A i \in 1..Len(tw) :
                  tw[i][1] \in all /\ tw[i][2] = Occurrences(tw[i][1], words)
            /\ \A i, j \in 1..Len(tw) :
                  i < j => Outranks(tw[i][1], tw[j][1], words)
            /\ \A v \in all \ listed : \A w \in listed : Outranks(w, v, words)
            /\ (all \ listed # {}) => Len(tw) = 5
            /\ (words = <<>>) => tw = <<>>

\* a full list with a tie in it, and an omitted token that ties with the
\* last listed one
C1_Witness ==
    /\ pc = "done"
    /\ Len(result.top_words) = 5
    /\ result.top_words[1][2] = result.top_words[2][2]
    /\ LET words == words_of(text)
       IN  \E i \in 1..Len(words) :
              /\ \A k \in 1..5 : result.top_words[k][1] # words[i]
              /\ Occurrences(words[i], words) = result.top_words[5][2]

\* C2: the label is exactly one of Positive, Neutral, Negative; Positive iff
\* compound >= 0.05, Negative iff compound <= -0.05, Neutral otherwise; and
\* it is the label of the compound value of the scores analyze_text returns.
C2_Label ==
    pc = "done" =>
        LET c == result.sentiment_scores.compound
            l == result.sentiment_label
        IN  /\ c \in (-10000)..10000
            /\ l \in {"Positive", "Neutral", "Negative"}
            /\ (l = "Positive") <=> (c >= 500)
            /\ (l = "Negative") <=> (c <= -500)
            /\ (l = "Neutral") <=> (c > -500 /\ c < 500)

\* the scorer returned exactly 0.05 and the label is Positive
C2_Witness ==
    /\ pc = "done"
    /\ scorer_calls # <<>>
    /\ result.sentiment_scores.compound = 500
    /\ result.sentiment_label = "Positive"

\* C3: with T the trimmed text, the preview is the first 200 characters of T
\* and the 3-character ellipsis, 203 characters, when len(T) > 200, and T
\* unchanged when len(T) <= 200; it is never longer than 203 characters.
C3_Preview ==
    pc = "done" =>
        LET T == strip(text)
        IN  /\ Len(T) > 200 =>
                  /\ result.preview = SubSeq(T, 1, 200) \o <<".", ".", ".">>
                  /\ Len(result.preview) = 203
            /\ Len(T) <= 200 => result.preview = T
            /\ Len(result.preview) <= 203

\* a text that is trimmed, is longer than 200 characters and is truncated
C3_Witness ==
    /\ pc = "done"
    /\ Len(strip(text)) > 201
    /\ Len(text) > Len(strip(text))
    /\ Len(result.preview) = 203

\* whitespace put before and behind a text
Padding == {<<>>, <<"\n", "\t">>}

\* C4: chars_with_spaces is the length of the trimmed original text and
\* chars_without_spaces is that minus the number of whitespace characters
\* of the trimmed text; 0 <= chars_without_spaces <= chars_with_spaces; and
\* whitespace around the raw input changes neither count.
C4_Chars ==
    pc = "done" =>
        LET T == strip(text)
            spaces == Cardinality({i \in 1..Len(T) : T[i] \in Whitespace})
        IN  /\ result.chars_with_spaces = Len(T)
            /\ result.chars_without_spaces = Len(T) - spaces
            /\ 0 <= result.chars_without_spaces
            /\ result.chars_without_spaces <= result.chars_with_spaces
            /\ \A lead, trail \in Padding :
                  LET padded == analyze_text(lead \o text \o trail, result.sentiment_scores)
                  IN  /\ padded.chars_with_spaces = result.chars_with_spaces
                      /\ padded.chars_without_spaces = result.chars_without_spaces

\* a text with whitespace around it and inside it, one of them not a blank,
\* and a character whose lowercase is longer
C4_Witness ==
    /\ pc = "done"
    /\ Len(text) > result.chars_with_spaces
    /\ result.chars_with_spaces > result.chars_without_spaces
    /\ \E i \in 1..Len(strip(text)) : strip(text)[i] = "\n"
    /\ \E i \in 1..Len(text) : text[i] = DottedI

\* the offsets at which a maximal run of [\w'] characters starts
RunStarts(s) ==
    {i \in 1..Len(s) : IsTokenChar(s[i]) /\ (i = 1 \/ ~IsTokenChar(s[i - 1]))}

\* the last offset of the maximal run that starts at i
RunLast(s, i) ==
    CHOOSE j \in i..Len(s) :
        /\ \A k \in i..j : IsTokenChar(s[k])
        /\ j = Len(s) \/ ~IsTokenChar(s[j + 1])

\* the run that starts at i holds a word character
HasWord(s, i) == \E k \in i..RunLast(s, i) : IsWordChar(s[k])

\* the run that starts at i without its leading and trailing apostrophes
Trimmed(s, i) ==
    LET at == {k \in i..RunLast(s, i) : IsWordChar(s[k])}
    IN  SubSeq(s, CHOOSE k \in at : \A m \in at : k <= m,
                  CHOOSE k \in at : \A m \in at : m <= k)

\* C5 as stated: the tokens are the maximal runs of word characters and
\* apostrophes of the lowercased trimmed text, one token for every run, and
\* word_count is their number.
C5_MaximalRuns ==
    pc = "done" =>
        LET s == lower(strip(text))
            tokens == words_of(text)
            starts == RunStarts(s)
        IN  /\ result.words = Cardinality(starts)
            /\ Len(tokens) = Cardinality(starts)
            /\ \A i \in starts :
                  tokens[Cardinality({j \in starts : j <= i})] = SubSeq(s, i, RunLast(s, i))

\* C5 as amended: the tokens are the maximal runs of word characters and
\* apostrophes of the lowercased trimmed text that hold a word character,
\* each without its leading and trailing apostrophes, one token for every
\* such run and none for a run of apostrophes only; word_count is their
\* number.
C5_TrimmedRuns ==
    pc = "done" =>
        LET s == lower(strip(text))
            tokens == words_of(text)
            starts == {i \in RunStarts(s) : HasWord(s, i)}
        IN  /\ result.words = Cardinality(starts)
            /\ Len(tokens) = Cardinality(starts)
            /\ \A i \in starts :
                  tokens[Cardinality({j \in starts : j <= i})] = Trimmed(s, i)

\* a run that ends with an apostrophe and gives a token, and a run of
\* apostrophes only
C5_Witness ==
    /\ pc = "done"
    /\ result.words = 1
    /\ LET s == lower(strip(text))
       IN  /\ \E i \in RunStarts(s) : HasWord(s, i) /\ s[RunLast(s, i)] = Apostrophe
           /\ \E i \in RunStarts(s) : ~HasWord(s, i)

\* C6: for an empty or whitespace-only text the scorer is not called and the
\* result is word count 0, both character counts 0, no top words, all four
\* scores 0.0, the label Neutral and the preview ""; for every other text
\* the scorer is called exactly once, with the trimmed text.
C6_Scorer ==
    pc = "done" =>
        IF \A i \in 1..Len(text) : text[i] \in Whitespace
        THEN /\ scorer_calls = <<>>
             /\ result = [words |-> 0,
                          chars_with_spaces |-> 0,
                          chars_without_spaces |-> 0,
                          top_words |-> <<>>,
                          sentiment_label |-> "Neutral",
                          sentiment_scores |->
                              [compound |-> 0, pos |-> 0, neu |-> 0, neg |-> 0],
                          preview |-> <<>>]
        ELSE scorer_calls = <<strip(text)>>

\* a whitespace-only text was analyzed
C6_Witness ==
    /\ pc = "done"
    /\ Len(text) > 1
    /\ \A i \in 1..Len(text) : text[i] \in Whitespace
    /\ scorer_calls = <<>>

----------------------------------------------------------------------------
(* The files of the machine.                                               *)

\* a byte that is no valid UTF-8, and U+FFFD, which errors="replace" puts in
\* its place
BadByte == "<0xFF>"
Replacement == "<U+FFFD>"

Home == <<"/", "h">>

\* the regular files: their bytes, each valid byte written as the character
\* it encodes, and whether the process may read them
FileSystem ==
    [p \in {Home \o <<"/", n>> : n \in {"g", "e", "w", "x", "u"}} |->
        CASE p[4] = "g" -> [bytes |-> <<"\n", "a", " ", "A", "\n">>, readable |-> TRUE]
          [] p[4] = "e" -> [bytes |-> <<>>, readable |-> TRUE]
          [] p[4] = "w" -> [bytes |-> <<" ", "\n">>, readable |-> TRUE]
          [] p[4] = "x" -> [bytes |-> <<"a", BadByte, " ">>, readable |-> TRUE]
          [] p[4] = "u" -> [bytes |-> <<"a">>, readable |-> FALSE]]

\* Path.is_file()
is_file(p) == p \in DOMAIN FileSystem

\* the strict UTF-8 decoder accepts the bytes
decodes(bytes) == \A i \in 1..Len(bytes) : bytes[i] # BadByte

\* decode(errors="replace")
decode_replace(bytes) ==
    [i \in 1..Len(bytes) |-> IF bytes[i] = BadByte THEN Replacement ELSE bytes[i]]

\* os.path.expanduser: a leading "~" is the home directory
expanduser(p) ==
    IF p # <<>> /\ p[1] = "~" /\ (Len(p) = 1 \/ p[2] = "/")
    THEN Home \o Tail(p)
    ELSE p

\* Path.resolve(): a relative path is taken from the working directory,
\* here the home directory
resolve(p) == IF p[1] = "/" THEN p ELSE Home \o <<"/">> \o p

\* str.strip('"')
strip_quotes(s) ==
    LET leading == {i \in 1..Len(s) : \A j \in 1..i : s[j] = "\""}
        trailing == {i \in 1..Len(s) : \A j \in i..Len(s) : s[j] = "\""}
    IN  SubSeq(s, Cardinality(leading) + 1, Len(s) - Cardinality(trailing))

upper_char(c) ==
    CASE c = "e" -> "E"
      [] c = "n" -> "N"
      [] c = "d" -> "D"
      [] c = "a" -> "A"
      [] OTHER -> c

\* str.upper()
upper(s) == [i \in 1..Len(s) |-> upper_char(s[i])]

RECURSIVE join_lines(_)
\* "\n".join(lines)
join_lines(ls) ==
    IF ls = <<>> THEN <<>>
    ELSE IF Len(ls) = 1 THEN ls[1]
    ELSE ls[1] \o <<"\n">> \o join_lines(Tail(ls))

----------------------------------------------------------------------------
(* The console flow: main, collect_text and the three prompts.             *)

MaxLines == 2

\* the deepest stack of Python frames the interpreter allows
RecursionLimit == 1000

MsgChoose == "Please type 1 or 2 so I know which route to take."
MsgNoPath == "Please provide a file path so I can keep going."
MsgNotFound == "I could not find that file. Double-check the path and try again."
MsgEmptyFile == "That file looks empty. Pick another file or use manual input."
MsgPaste == "Paste or type your text below. Type END on a new line when you are finished."
MsgNoText == "I did not capture any text. Let's try that again."
MsgThanks == "Thanks for exploring your text with this analyzer."

\* what input() gives: a line, or EOFError at the end of standard input
Line(l) == [kind |-> "line", line |-> l]
EndOfInput == [kind |-> "eof", line |-> <<>>]

MethodInputs == {Line(<<"1">>), Line(<<" ", "2">>), Line(<<"3">>), Line(<<>>), EndOfInput}

PathInputs ==
    {Line(<<>>), Line(<<" ">>), Line(<<"\"", "\"">>),
     Line(<<"m">>), Line(<<"~">>),
     Line(<<"e">>), Line(<<"w">>),
     Line(<<"g">>), Line(<<" ", "\"", "g", "\"">>), Line(<<"~", "/", "g">>),
     Line(<<"/", "h", "/", "x">>),
     Line(<<"u">>),
     EndOfInput}

LineInputs ==
    {Line(<<>>), Line(<<"a", " ">>), Line(<<" ", "e", "n", "D", " ">>), Line(<<"E", "N", "D">>),
     Line(<<"e", "n", "d", "a">>), EndOfInput}

\* an exception nothing catches ends the process with a traceback
Crash(e) ==
    /\ pc' = "crashed"
    /\ error' = e

\* read_text_from_file with the emptiness test on the untrimmed text
accepts_text_untrimmed(content) == content # <<>>

\* `if text.strip()`: the file's text is taken
accepts_text(content) == strip(content) # <<>>

\* candidate.read_text(encoding="utf-8"), and with errors="replace" when
\* that raises UnicodeDecodeError
read_text(bytes) == IF decodes(bytes) THEN bytes ELSE decode_replace(bytes)

InitConsole ==
    /\ text = <<>>
    /\ result = NoResult
    /\ scorer_calls = <<>>
    /\ pc = "prompt_method"
    /\ route = "none"
    /\ lines = <<>>
    /\ depth = BaseDepth
    /\ out = ""
    /\ entry = NoEntry
    /\ error = "none"
    /\ GuiStart

\* prompt_input_method: one pass of its loop
PromptMethod ==
    /\ pc = "prompt_method"
    /\ \E in \in MethodInputs :
          IF in.kind = "eof"
          THEN /\ Crash("EOFError")
               /\ UNCHANGED <<route, lines, depth, out>>
          ELSE LET choice == strip(in.line)
               IN  IF choice = <<"1">>
                   THEN /\ pc' = "read_file"
                        /\ route' = "file"
                        /\ depth' = depth + 1
                        /\ UNCHANGED <<lines, out, error>>
                   ELSE IF choice = <<"2">>
                   THEN /\ pc' = "read_input"
                        /\ route' = "input"
                        /\ depth' = depth + 1
                        /\ lines' = <<>>
                        /\ out' = MsgPaste
                        /\ UNCHANGED error
                   ELSE /\ out' = MsgChoose
                        /\ UNCHANGED <<pc, route, lines, depth, error>>
    /\ UNCHANGED <<analysis_vars, entry, gui_vars>>

\* read_text_from_file: one pass of its loop
ReadFile ==
    /\ pc = "read_file"
    /\ \E in \in PathInputs :
          /\ entry' = in
          /\ IF in.kind = "eof"
             THEN /\ Crash("EOFError")
                  /\ UNCHANGED <<text, depth, out>>
             ELSE LET raw_path == strip_quotes(strip(in.line))
                      candidate == resolve(expanduser(raw_path))
                  IN  IF raw_path = <<>>
                      THEN /\ out' = MsgNoPath
                           /\ UNCHANGED <<text, pc, depth, error>>
                      ELSE IF ~is_file(candidate)
                      THEN /\ out' = MsgNotFound
                           /\ UNCHANGED <<text, pc, depth, error>>
                      ELSE IF ~FileSystem[candidate].readable
                      THEN /\ Crash("PermissionError")
                           /\ UNCHANGED <<text, depth, out>>
                      ELSE LET content == read_text(FileSystem[candidate].bytes)
                           IN  IF accepts_text(content)
                               THEN /\ text' = content
                                    /\ pc' = "ready"
                                    /\ depth' = depth - 1
                                    /\ UNCHANGED <<out, error>>
                               ELSE /\ out' = MsgEmptyFile
                                    /\ UNCHANGED <<text, pc, depth, error>>
    /\ UNCHANGED <<result, scorer_calls, route, lines, gui_vars>>

\* read_text_from_input: one pass of its loop and, when the loop ends, the
\* rest of the function
ReadInput ==
    /\ pc = "read_input"
    /\ \E in \in LineInputs :
          IF in.kind = "line" /\ upper(strip(in.line)) # <<"E", "N", "D">>
          THEN /\ Len(lines) < MaxLines
               /\ lines' = Append(lines, in.line)
               /\ UNCHANGED <<text, pc, depth, out, error>>
          ELSE LET collected == strip(join_lines(lines))
               IN  IF collected # <<>>
                   THEN /\ text' = collected
                        /\ pc' = "ready"
                        /\ depth' = BaseDepth
                        /\ lines' = <<>>
                        /\ UNCHANGED <<out, error>>
                   ELSE /\ out' = MsgNoText
                        /\ IF depth < RecursionLimit
                           THEN /\ depth' = depth + 1
                                /\ lines' = <<>>
                                /\ UNCHANGED <<text, pc, error>>
                           ELSE /\ Crash("RecursionError")
                                /\ UNCHANGED <<text, depth, lines>>
    /\ UNCHANGED <<result, scorer_calls, route, entry, gui_vars>>

\* show_results
ShowResults ==
    /\ pc = "done"
    /\ route # "none"
    /\ out' = MsgThanks
    /\ pc' = "exit"
    /\ depth' = 0
    /\ UNCHANGED <<analysis_vars, route, lines, entry, error, gui_vars>>

NextConsole ==
    \/ PromptMethod
    \/ ReadFile
    \/ ReadInput
    \/ Analyze(ScorerOutputs)
    \/ ShowResults

SpecConsole == InitConsole /\ [][NextConsole]_vars

----------------------------------------------------------------------------
(* Properties of the console flow.                                         *)

NonBlank(t) == \E i \in 1..Len(t) : t[i] \notin Whitespace

\* what each line entered at the path prompt names on this machine
EntryKind(in) ==
    CASE in.kind = "eof" -> "end of input"
      [] in.kind = "none" -> "none"
      [] in.line \in {<<>>, <<" ">>, <<"\"", "\"">>} -> "blank path"
      [] in.line \in {<<"m">>, <<"~">>} -> "no file"
      [] in.line \in {<<"e">>, <<"w">>} -> "blank file"
      [] in.line = <<"u">> -> "unreadable file"
      [] OTHER -> "file with text"

Report(kind) ==
    CASE kind = "blank path" -> MsgNoPath
      [] kind = "no file" -> MsgNotFound
      [] kind = "blank file" -> MsgEmptyFile
      [] OTHER -> ""

\* C7: in the file route every blank path, path of no file and blank file is
\* reported and the path is asked again, the flow going on; the route
\* returns when, and as soon as, an entry names a file with non-blank text;
\* the text returned is not blank and no analysis starts on a blank text.
C7_FileRoute ==
    /\ (route = "file" /\ pc = "read_file" /\ entry # NoEntry) =>
          /\ EntryKind(entry) \in {"blank path", "no file", "blank file"}
          /\ out = Report(EntryKind(entry))
          /\ error = "none"
    /\ (route = "file" /\ EntryKind(entry) \in {"blank path", "no file", "blank file"}) =>
          pc = "read_file"
    /\ (route = "file" /\ pc \in {"ready", "done", "exit"}) =>
          /\ EntryKind(entry) = "file with text"
          /\ NonBlank(text)
    /\ (route = "file" /\ EntryKind(entry) = "file with text") =>
          pc \in {"ready", "done", "exit"}
    /\ pc \in {"ready", "done"} => NonBlank(text)

\* a blank file was reported and a later entry was returned from
C7_Witness ==
    /\ route = "file"
    /\ pc = "ready"
    /\ out = MsgEmptyFile
    /\ text = <<"\n", "a", " ", "A", "\n">>

\* C8: in the manual route a blank text is reported and asked again, and
\* that is never fatal: whatever is entered, the end of standard input
\* included, the process does not end abnormally; the text returned is not
\* blank.
C8_ManualInput ==
    route = "input" =>
        /\ pc # "crashed"
        /\ error = "none"
        /\ pc \in {"ready", "done", "exit"} => NonBlank(text)
        /\ (pc = "read_input" /\ depth > BaseDepth + 1) => out = MsgNoText

----------------------------------------------------------------------------
(* The GUI: the two text widgets and the handlers of the two buttons.      *)

\* Text.config(state=...)
text_config(w, st) == [w EXCEPT !.state = st]

\* Text.delete("1.0", END): a disabled widget ignores it
text_delete_all(w) ==
    IF w.state = "disabled" THEN w ELSE [w EXCEPT !.content = <<>>]

\* Text.insert(END, s): a disabled widget ignores it
text_insert_end(w, s) ==
    IF w.state = "disabled" THEN w ELSE [w EXCEPT !.content = @ \o s]

\* Text.get("1.0", END): the content and the newline that ends every text
\* widget
text_get_all(content) == content \o <<"\n">>

\* format_top_words: one line for each word, as its parts
format_top_words(top_words) ==
    IF top_words = <<>>
    THEN <<<<"No words detected. Add more text to see frequency insights.">>>>
    ELSE [i \in 1..Len(top_words) |->
             <<i, ". ", top_words[i][1], " - ", top_words[i][2], " time(s)">>]

\* format(x, ".3f") of a score in ten-thousandths: the sign and the nearest
\* number of thousandths (no score of ScorerOutputs is half-way between two)
fmt3(x) ==
    [negative |-> x < 0, thousandths |-> ((IF x < 0 THEN -x ELSE x) + 5) \div 10]

\* output_lines of run_analysis, each line as its parts
output_lines(results) ==
    <<<<"Word count: ", results.words>>,
      <<"Characters (with spaces): ", results.chars_with_spaces>>,
      <<"Characters (without spaces): ", results.chars_without_spaces>>,
      <<"">>,
      <<"Top 5 Words:">>>>
    \o format_top_words(results.top_words)
    \o <<<<"">>,
         <<"Sentiment: ", results.sentiment_label>>,
         <<"Scores -> ", "Pos: ", fmt3(results.sentiment_scores.pos),
           ", Neu: ", fmt3(results.sentiment_scores.neu),
           ", Neg: ", fmt3(results.sentiment_scores.neg),
           ", Compound: ", fmt3(results.sentiment_scores.compound)>>>>

\* "\n".join(output_lines).strip(): no line starts or ends with whitespace,
\* so what strip() drops is the empty lines at either end
compiled_output(ls) ==
    LET leading == {i \in 1..Len(ls) : \A j \in 1..i : ls[j] = <<"">>}
        trailing == {i \in 1..Len(ls) : \A j \in i..Len(ls) : ls[j] = <<"">>}
    IN  SubSeq(ls, Cardinality(leading) + 1, Len(ls) - Cardinality(trailing))

\* show_output leaving the results widget editable
show_output_left_normal(w, compiled) ==
    text_insert_end(text_delete_all(text_config(w, "normal")), compiled)

\* the four calls on output_box that end run_analysis
show_output(w, compiled) ==
    text_config(text_insert_end(text_delete_all(text_config(w, "normal")), compiled),
                "disabled")

\* what the user may type into the input box
TypedTexts == {<<>>, <<" ", "\n">>, <<"'">>, <<"a">>, <<" ", "A", " ", "a", "\n">>}

\* what the file dialog may return: nothing when it is cancelled, or a path
Cancelled == <<>>
DialogChoices == {Cancelled, Home \o <<"/", "m">>} \cup DOMAIN FileSystem

\* open(path, "r", encoding="utf-8") and read() succeed
reads(path) ==
    /\ is_file(path)
    /\ FileSystem[path].readable
    /\ decodes(FileSystem[path].bytes)

InitGui ==
    /\ text = <<>>
    /\ result = NoResult
    /\ scorer_calls = <<>>
    /\ pc = "mainloop"
    /\ ConsoleIdle
    /\ GuiStart

\* the user edits the input box
EditInput ==
    /\ pc = "mainloop"
    /\ \E t \in TypedTexts :
          /\ input_box' = t
          /\ last_event' = [op |-> "edit", choice |-> <<>>, box |-> t]
    /\ dialog' = "none"
    /\ UNCHANGED <<analysis_vars, pc, console_vars, output_box, output_state, analyzed>>

\* load_file
LoadFile ==
    /\ pc = "mainloop"
    /\ \E path \in DialogChoices :
          /\ last_event' = [op |-> "load", choice |-> path, box |-> input_box]
          /\ IF path = Cancelled
             THEN /\ dialog' = "none"
                  /\ UNCHANGED input_box
             ELSE IF ~reads(path)
             THEN /\ dialog' = "File Error"
                  /\ UNCHANGED input_box
             ELSE /\ dialog' = "none"
                  /\ input_box' = FileSystem[path].bytes
    /\ UNCHANGED <<analysis_vars, pc, console_vars, output_box, output_state, analyzed>>

\* run_analysis
RunAnalysis ==
    /\ pc = "mainloop"
    /\ last_event' = [op |-> "analyze", choice |-> <<>>, box |-> input_box]
    /\ LET raw_text == strip(text_get_all(input_box))
       IN  IF raw_text = <<>>
           THEN /\ dialog' = "No Text"
                /\ UNCHANGED <<output_box, output_state, analyzed>>
           ELSE \E scored \in ScorerOutputs :
                   LET results == analyze_text(raw_text, scored)
                       shown == show_output([content |-> output_box, state |-> output_state],
                                            compiled_output(output_lines(results)))
                   IN  /\ output_box' = shown.content
                       /\ output_state' = shown.state
                       /\ analyzed' = [done |-> TRUE, box |-> input_box, scores |-> scored]
                       /\ dialog' = "none"
    /\ UNCHANGED <<analysis_vars, pc, console_vars, input_box>>

NextGui ==
    \/ EditInput
    \/ LoadFile
    \/ RunAnalysis

SpecGui == InitGui /\ [][NextGui]_vars

----------------------------------------------------------------------------
(* Properties of the file reads and of the GUI.                            *)

\* the file whose bytes are no valid UTF-8, and its lossy decoding
UndecodablePath == <<"/", "h", "/", "x">>
LossyText == <<"a", "<U+FFFD>", " ">>

\* C9: a file read that meets bytes that are no valid UTF-8 falls back to the
\* lossy decoding and yields text, in the console file route and in the
\* GUI's load_file: it does not end in an error and the decoded text reaches
\* the analysis input.
C9_LossyFallback ==
    /\ (route = "file" /\ entry = Line(UndecodablePath)) =>
          /\ pc \in {"ready", "done", "exit"}
          /\ error = "none"
          /\ text = LossyText
    /\ (last_event.op = "load" /\ last_event.choice = UndecodablePath) =>
          /\ dialog = "none"
          /\ input_box = LossyText

\* the rendering of an analysis, written out from the fields of the result
Rendering(r) ==
    LET tops == IF r.top_words = <<>>
                THEN <<<<"No words detected. Add more text to see frequency insights.">>>>
                ELSE [i \in 1..Len(r.top_words) |->
                         <<i, ". ", r.top_words[i][1], " - ", r.top_words[i][2], " time(s)">>]
    IN  <<<<"Word count: ", r.words>>,
          <<"Characters (with spaces): ", r.chars_with_spaces>>,
          <<"Characters (without spaces): ", r.chars_without_spaces>>,
          <<"">>,
          <<"Top 5 Words:">>>>
        \o tops
        \o <<<<"">>,
             <<"Sentiment: ", r.sentiment_label>>,
             <<"Scores -> ", "Pos: ", fmt3(r.sentiment_scores.pos),
               ", Neu: ", fmt3(r.sentiment_scores.neu),
               ", Neg: ", fmt3(r.sentiment_scores.neg),
               ", Compound: ", fmt3(r.sentiment_scores.compound)>>>>

\* the results area between two handlers: read-only, and empty before the
\* first analysis of a non-blank input, afterwards the rendering of
\* analyze_text on the trimmed input box of the most recent such analysis
ResultsShown ==
    /\ output_state = "disabled"
    /\ IF analyzed.done
       THEN /\ NonBlank(analyzed.box)
            /\ output_box = Rendering(analyze_text(strip(analyzed.box), analyzed.scores))
       ELSE output_box = <<>>

\* a handler that must leave the results area alone did, and so for the
\* input box
LeftAlone ==
    /\ (last_event'.op = "analyze" /\ ~NonBlank(last_event'.box)) =>
          /\ output_box' = output_box
          /\ analyzed' = analyzed
    /\ (last_event'.op = "analyze" /\ NonBlank(last_event'.box)) =>
          /\ analyzed'.done
          /\ analyzed'.box = input_box
    /\ (last_event'.op = "load"
            /\ last_event'.choice \in {Cancelled, <<"/", "h", "/", "m">>, <<"/", "h", "/", "u">>}) =>
          /\ output_box' = output_box
          /\ analyzed' = analyzed
          /\ input_box' = input_box

\* C10: after any sequence of load-file and analyze actions the results area
\* is read-only whenever no handler runs, and it is empty or the rendering
\* of analyze_text on the trimmed input box at the most recent analysis of a
\* non-blank input; an analysis of a blank input, a cancelled dialog and a
\* failed read leave the results area unchanged, the last two the input box
\* too.
C10_Results == []ResultsShown /\ [][LeftAlone]_vars

\* an analysis was shown, the input was replaced by a blank file, the next
\* analysis was refused, and the results are still there
C10_Witness ==
    /\ analyzed.done
    /\ output_box # <<>>
    /\ output_state = "disabled"
    /\ input_box = <<" ", "\n">>
    /\ analyzed.box # input_box
    /\ last_event.op = "analyze"
    /\ dialog = "No Text"

====
